---- MODULE Spec2Model ----
(***************************************************************************)
(* Model of signal-demo.py: the access gate, the upload limits, the        *)
(* per-column signal enhancement, the watermark and the CSV export.        *)
(*                                                                         *)
(* A Streamlit script runs top to bottom on every user interaction; pc     *)
(* is the position of the current run in main().  DataFrames are objects   *)
(* on a heap and the script's locals (df, enhanced_df) are references to   *)
(* them, so that in-place mutation and copying are told apart.             *)
(***************************************************************************)
EXTENDS Integers, Sequences, FiniteSets, TLC

VARIABLES
    authenticated,  \* st.session_state.authenticated
    login,          \* the login form: the access code typed in, the button of this run
    pc,             \* position of the running script (or of the direct call)
    ui,             \* messages the current run has shown (st.error, st.warning, ...)
    upload,         \* the uploaded file: its size and what its bytes hold
    heap,           \* the DataFrame objects of the current run
    df,             \* main(): df, a reference into heap (0: unbound)
    cfg,            \* the slider values: boost, lowcut, highcut
    enhanced_df,    \* main(): enhanced_df, a reference into heap (0: unbound)
    watermark,      \* main(): watermark, the marker add_watermark returned
    preview,        \* the two frames of the results preview
    download,       \* the artifact handed to st.download_button
    stages,         \* the pipeline stages the current request has completed
    calls           \* direct calls of a function: what each one returned

vars == <<authenticated, login, pc, ui, upload, heap, df, cfg, enhanced_df,
          watermark, preview, download, stages, calls>>

-----------------------------------------------------------------------------
(* Program constants                                                       *)

MAX_FILE_SIZE == 2 * 1024 * 1024
MAX_ROWS == 500
WATERMARK_TEXT == "QuantumSignal Demo | Not for Production | {}"
SECRET == "Demo2025"
\* basic_bandpass_filter's default sampling rate and the filter order
FS == 256
ORDER == 4
WATERMARK_COLUMN == "DEMO_WATERMARK"

(* Bounds of the model                                                     *)
MaxCols == 2        \* columns of an uploaded table
ExtraRows == 1      \* how far a table may exceed MAX_ROWS

-----------------------------------------------------------------------------
(* Tables.  A table is a sequence of columns, a column a name and a        *)
(* sequence of cells.  A numeric cell is [num |-> k], a textual cell is    *)
(* [str |-> k] (the k-th distinct string).                                 *)

NumCell(k) == [num |-> k]
StrCell(k) == [str |-> k]

Rows(t) == IF t = <<>> THEN 0 ELSE Len(t[1].values)
ColumnNames(t) == [j \in 1..Len(t) |-> t[j].name]
NameSet(t) == {t[j].name : j \in 1..Len(t)}

IsNumeric(values) == \A k \in 1..Len(values) : "num" \in DOMAIN values[k]

\* str.lower() on the column names that occur
Lower(name) ==
    CASE name = "Time" -> "time"
      [] name = "TIME" -> "time"
      [] name = "DEMO_WATERMARK" -> "demo_watermark"
      [] OTHER -> name

\* (variant: the name compared as it is written)
IsSignalColumnCaseSensitive(name) == name # "time"

IsSignalColumn(name) == Lower(name) # "time"

\* the position of the column called name (column names are unique)
ColumnIndex(t, name) == CHOOSE j \in 1..Len(t) : t[j].name = name

\* (variant: df.tail(n), the last n rows)
DataFrameTail(t, n) ==
    [j \in 1..Len(t) |->
        [name |-> t[j].name,
         values |-> IF Len(t[j].values) > n
                    THEN SubSeq(t[j].values, Len(t[j].values) - n + 1, Len(t[j].values))
                    ELSE t[j].values]]

\* df.head(n): a new frame holding the first n rows of every column
DataFrameHead(t, n) ==
    [j \in 1..Len(t) |->
        [name |-> t[j].name,
         values |-> IF Len(t[j].values) > n THEN SubSeq(t[j].values, 1, n)
                    ELSE t[j].values]]

-----------------------------------------------------------------------------
(* basic_bandpass_filter.  Frequencies are whole Hz; a normalised cutoff   *)
(* lowcut / nyquist is kept as the fraction [num, den].  The filtered      *)
(* samples stay symbolic: sample k of the output is identified by its      *)
(* position, the input sample at that position, the length of the window   *)
(* that was filtered and the band.                                         *)

\* What a call that may raise gives back: the values, or an exception.
Returned(values) == [raised |-> FALSE, values |-> values]
Raised == [raised |-> TRUE, values |-> <<>>]

Frac(n, d) == [num |-> n, den |-> d]
FracLess(a, b) == a.num * b.den < b.num * a.den
InUnitInterval(w) == 0 < w.num /\ w.num < w.den

\* scipy.signal.butter(4, [low, high], btype="band") rejects a critical
\* frequency outside (0, 1); releases that validate the band order also
\* reject low >= high ("strict"), the others design a filter from it.
ScipyBuilds == {"strict", "lenient"}
ButterRaises(low, high, scipy) ==
    \/ ~InUnitInterval(low)
    \/ ~InUnitInterval(high)
    \/ scipy = "strict" /\ ~FracLess(low, high)

\* scipy.signal.filtfilt pads by 3 * max(len(a), len(b)) samples, where a
\* band filter of order N has 2N + 1 coefficients, and rejects an input
\* that is not longer than the padding; it cannot do arithmetic on text.
PadLen == 3 * (2 * ORDER + 1)
FiltfiltRaises(signal) == ~IsNumeric(signal) \/ Len(signal) <= PadLen

basic_bandpass_filter(signal, lowcut, highcut, scipy) ==
    LET nyquist == FS \div 2
        low == Frac(lowcut, nyquist)
        high == Frac(highcut, nyquist)
    IN  IF ButterRaises(low, high, scipy) \/ FiltfiltRaises(signal)
        THEN Raised
        ELSE Returned([k \in 1..Len(signal) |->
                [y |-> k, x |-> signal[k].num, n |-> Len(signal),
                 low |-> low, high |-> high]])

-----------------------------------------------------------------------------
(* demo_enhance_signals                                                    *)

\* signal[:MAX_ROWS] when the column is longer than MAX_ROWS
DemoLimit(signal) ==
    IF Len(signal) > MAX_ROWS THEN SubSeq(signal, 1, MAX_ROWS) ELSE signal

\* filtered * boost_factor + np.random.normal(0, 0.03 * std(boosted), n):
\* the gain (in tenths) and the draw of the generator are recorded per sample
BoostWithNoise(filtered, boost, seed) ==
    [k \in 1..Len(filtered) |->
        [y |-> filtered[k].y, x |-> filtered[k].x, n |-> filtered[k].n,
         low |-> filtered[k].low, high |-> filtered[k].high,
         gain |-> boost, noise |-> seed]]

\* The body of the try block for one column: the new values of the column,
\* or an exception.  Assigning an array to a column of a frame raises when
\* the array's length is not the frame's row count.
TryColumn(t, col, boost, lowcut, highcut, scipy, seed) ==
    LET signal == DemoLimit(t[ColumnIndex(t, col)].values)
        filtered == basic_bandpass_filter(signal, lowcut, highcut, scipy)
    IN  IF filtered.raised THEN Raised
        ELSE IF Len(filtered.values) # Rows(t) THEN Raised
        ELSE Returned(BoostWithNoise(filtered.values, boost, seed))

ProcessingError(col) == [error |-> "Demo processing error for", col |-> col]

\* One iteration of the loop over signal_cols: acc holds df_enhanced and the
\* errors shown so far.  On an exception the column is set to df[col].
EnhanceColumn(t, acc, col, boost, lowcut, highcut, scipy, seed) ==
    LET j == ColumnIndex(t, col)
        out == TryColumn(t, col, boost, lowcut, highcut, scipy, seed)
    IN  IF out.raised
        THEN [table |-> [acc.table EXCEPT ![j].values = t[j].values],
              errors |-> Append(acc.errors, ProcessingError(col))]
        ELSE [table |-> [acc.table EXCEPT ![j].values = out.values],
              errors |-> acc.errors]

RECURSIVE EnhanceLoop(_, _, _, _, _, _, _, _)
EnhanceLoop(t, acc, cols, boost, lowcut, highcut, scipy, seed) ==
    IF cols = <<>> THEN acc
    ELSE EnhanceLoop(t,
            EnhanceColumn(t, acc, Head(cols), boost, lowcut, highcut, scipy, seed),
            Tail(cols), boost, lowcut, highcut, scipy, seed)

SignalCols(t) == SelectSeq(ColumnNames(t), IsSignalColumn)

\* Returns the new frame (a copy of t with the signal columns replaced) and
\* the errors shown.
demo_enhance_signals(t, boost, lowcut, highcut, scipy, seed) ==
    EnhanceLoop(t, [table |-> t, errors |-> <<>>],
                SignalCols(t), boost, lowcut, highcut, scipy, seed)

-----------------------------------------------------------------------------
(* add_watermark                                                           *)

\* datetime.now() readings: a day, a second of it and the microseconds
Clock == {[day |-> 1, sec |-> 0, usec |-> 0],
          [day |-> 1, sec |-> 0, usec |-> 500000],
          [day |-> 1, sec |-> 1, usec |-> 0]}

\* now.strftime("%Y-%m-%d %H:%M:%S"): the reading to the second
Strftime(now) == [day |-> now.day, sec |-> now.sec]

\* WATERMARK_TEXT.format(timestamp)
Format(template, timestamp) == [text |-> template, arg |-> timestamp]
NoMarker == [text |-> "", arg |-> [day |-> 0, sec |-> 0]]

\* the frame after df.insert(0, name, value): the scalar is repeated for
\* every row
InsertFirst(t, name, value) ==
    <<[name |-> name, values |-> [k \in 1..Rows(t) |-> value]]>> \o t

\* add_watermark(df) on the frame heap[ref].  DataFrame.insert changes the
\* frame in place and raises when the column already exists; the function
\* returns the reference it was given.
add_watermark(h, ref, now) ==
    LET timestamp == Strftime(now)
        marker == Format(WATERMARK_TEXT, timestamp)
    IN  IF WATERMARK_COLUMN \in NameSet(h[ref])
        THEN [raised |-> TRUE, heap |-> h, ref |-> 0, watermark |-> NoMarker]
        ELSE [raised |-> FALSE,
              heap |-> [h EXCEPT ![ref] = InsertFirst(h[ref], WATERMARK_COLUMN, marker)],
              ref |-> ref, watermark |-> marker]

-----------------------------------------------------------------------------
(* Export                                                                  *)

\* DataFrame.to_csv(index=False): the header, then one record per row
to_csv(t) ==
    [header |-> ColumnNames(t),
     records |-> [r \in 1..Rows(t) |-> [j \in 1..Len(t) |-> t[j].values[r]]]]

FileName(now) == [prefix |-> "demo_signal_enhancement_", date |-> now.day,
                  suffix |-> ".csv"]

NoDownload == [offered |-> FALSE, data |-> to_csv(<<>>), file_name |-> FileName([day |-> 0]),
               mime |-> ""]
NoPreview == [shown |-> FALSE, original |-> <<>>, enhanced |-> <<>>]

-----------------------------------------------------------------------------
(* Inputs                                                                  *)

ColumnPool == {"Time", "time", "ch1", "ch2", "DEMO_WATERMARK"}
ColSpecs ==
    {[name |-> n, kind |-> "num"] : n \in ColumnPool \ {WATERMARK_COLUMN}}
    \cup {[name |-> n, kind |-> "str"] : n \in {"ch1", "ch2", WATERMARK_COLUMN}}

\* header rows: up to MaxCols columns with distinct names
Layouts ==
    {l \in UNION {[1..n -> ColSpecs] : n \in 1..MaxCols} :
        \A i, j \in 1..Len(l) : l[i].name = l[j].name => i = j}

RowCounts == {0, PadLen, PadLen + 1, MAX_ROWS} \cup (MAX_ROWS + 1 .. MAX_ROWS + ExtraRows)

MakeTable(l, rows) ==
    [j \in 1..Len(l) |->
        [name |-> l[j].name,
         values |-> [k \in 1..rows |->
                        IF l[j].kind = "num" THEN NumCell(1000 * j + k)
                        ELSE StrCell(1000 * j + k)]]]

Tables == {MakeTable(l, rows) : l \in Layouts, rows \in RowCounts}

\* an uploaded file: its size in bytes and what pd.read_csv makes of it
Sizes == {MAX_FILE_SIZE, MAX_FILE_SIZE + 1}
NoFile == [present |-> FALSE, size |-> 0, parses |-> FALSE, table |-> <<>>]
Files ==
    {[present |-> TRUE, size |-> sz, parses |-> TRUE, table |-> t] :
        sz \in Sizes, t \in Tables}
    \cup {[present |-> TRUE, size |-> sz, parses |-> FALSE, table |-> <<>>] : sz \in Sizes}

Passwords == {"Demo2025", "demo2025", ""}

\* the sliders' ranges (boost in tenths, cutoffs in Hz) and the positions
\* tried: the ends of each cutoff range; the gain decides no branch, and
\* the application is run at its upper end only
BoostMin == 10
BoostMax == 20
LowCutMin == 1
LowCutMax == 20
HighCutMin == 10
HighCutMax == 50
Boosts == {b \in {BoostMax} : BoostMin <= b /\ b <= BoostMax}
LowCuts == {f \in {LowCutMin, LowCutMax} : LowCutMin <= f /\ f <= LowCutMax}
HighCuts == {f \in {HighCutMin, HighCutMax} : HighCutMin <= f /\ f <= HighCutMax}
DefaultCfg == [boost |-> 15, lowcut |-> 1, highcut |-> 40]

Seeds == {0, 1}

-----------------------------------------------------------------------------
(* The application: one run of the script after another                    *)

InvalidAccessCode == [error |-> "Invalid access code"]
FileTooLarge == [error |-> "File too large for demo. Max: 2.0MB"]
DemoError == [error |-> "Demo error"]
Truncated == [warning |-> "Demo limited to first 500 rows"]
Complete == [success |-> "Demo processing complete!"]

Shown(msg) == \E i \in 1..Len(ui) : ui[i] = msg

Locals == <<upload, heap, df, cfg, enhanced_df, watermark, preview, download, stages>>

Init ==
    /\ authenticated = FALSE
    /\ login = [password |-> "", button |-> FALSE]
    /\ pc = "check_auth"
    /\ ui = <<>>
    /\ upload = NoFile
    /\ heap = <<>>
    /\ df = 0
    /\ cfg = DefaultCfg
    /\ enhanced_df = 0
    /\ watermark = NoMarker
    /\ preview = NoPreview
    /\ download = NoDownload
    /\ stages = <<>>
    /\ calls = <<>>

\* (variant: the access code compared without regard to letter case)
PasswordOkAnyCase(pw) == pw \in {SECRET, "demo2025"}

\* line 29: the comparison with the access code
PasswordOk(pw) == pw = SECRET

\* check_auth, not authenticated, "Access Demo" pressed with pw typed in
LoginSubmit ==
    /\ pc = "check_auth"
    /\ ~authenticated
    /\ \E pw \in Passwords :
        IF PasswordOk(pw)
        THEN \* st.rerun(): the script starts over, the button released
             /\ authenticated' = TRUE
             /\ login' = [password |-> pw, button |-> FALSE]
             /\ ui' = <<>>
             /\ pc' = "check_auth"
        ELSE \* st.error, then st.stop() at line 42
             /\ authenticated' = authenticated
             /\ login' = [password |-> pw, button |-> TRUE]
             /\ ui' = Append(ui, InvalidAccessCode)
             /\ pc' = "stopped"
    /\ UNCHANGED <<Locals, calls>>

\* check_auth, not authenticated, button not pressed: the login page, st.stop()
LoginPage ==
    /\ pc = "check_auth"
    /\ ~authenticated
    /\ pc' = "stopped"
    /\ login' = [login EXCEPT !.button = FALSE]
    /\ UNCHANGED <<authenticated, ui, Locals, calls>>

\* check_auth returns True
AuthPass ==
    /\ pc = "check_auth"
    /\ authenticated
    /\ pc' = "file_uploader"
    /\ UNCHANGED <<authenticated, login, ui, Locals, calls>>

\* line 114: the uploader holds a file or none
FileUploader ==
    /\ pc = "file_uploader"
    /\ \E f \in Files \cup {NoFile} :
        /\ upload' = f
        /\ pc' = IF f.present THEN "size_check" ELSE "done"
    /\ UNCHANGED <<authenticated, login, ui, heap, df, cfg, enhanced_df,
                   watermark, preview, download, stages, calls>>

\* (variant: a limit of 20 MB)
TooLargeTwentyMB(size) == size > 20 * 1024 * 1024

\* line 118
TooLarge(size) == size > MAX_FILE_SIZE

\* lines 117-120
SizeCheck ==
    /\ pc = "size_check"
    /\ IF TooLarge(upload.size)
       THEN /\ ui' = Append(ui, FileTooLarge)
            /\ pc' = "done"
       ELSE /\ ui' = ui
            /\ pc' = "read_csv"
    /\ UNCHANGED <<authenticated, login, upload, heap, df, cfg, enhanced_df,
                   watermark, preview, download, stages, calls>>

\* line 123; a parser error is caught at line 173
ReadCsv ==
    /\ pc = "read_csv"
    /\ IF upload.parses
       THEN /\ heap' = Append(heap, upload.table)
            /\ df' = Len(heap) + 1
            /\ ui' = ui
            /\ pc' = "row_limit"
       ELSE /\ ui' = Append(ui, DemoError)
            /\ pc' = "done"
            /\ UNCHANGED <<heap, df>>
    /\ UNCHANGED <<authenticated, login, upload, cfg, enhanced_df,
                   watermark, preview, download, stages, calls>>

\* line 126
OverRowLimit(t) == Rows(t) > MAX_ROWS

\* lines 126-128: df is rebound to the frame head() returns
RowLimit ==
    /\ pc = "row_limit"
    /\ IF OverRowLimit(heap[df])
       THEN /\ heap' = Append(heap, DataFrameHead(heap[df], MAX_ROWS))
            /\ df' = Len(heap) + 1
            /\ ui' = Append(ui, Truncated)
       ELSE UNCHANGED <<heap, df, ui>>
    /\ stages' = Append(stages, "Validated")
    /\ pc' = "settings"
    /\ UNCHANGED <<authenticated, login, upload, cfg, enhanced_df,
                   watermark, preview, download, calls>>

\* lines 131-140: the three sliders and the process button
Settings ==
    /\ pc = "settings"
    /\ \E boost \in Boosts, lowcut \in LowCuts, highcut \in HighCuts :
        cfg' = [boost |-> boost, lowcut |-> lowcut, highcut |-> highcut]
    /\ \E pressed \in BOOLEAN : pc' = IF pressed THEN "enhance" ELSE "done"
    /\ UNCHANGED <<authenticated, login, ui, upload, heap, df, enhanced_df,
                   watermark, preview, download, stages, calls>>

\* (variant: df_enhanced = df, the columns are replaced in the caller's frame)
EnhanceInPlace ==
    /\ pc = "enhance"
    /\ \E scipy \in ScipyBuilds, seed \in Seeds :
        LET r == demo_enhance_signals(heap[df], cfg.boost, cfg.lowcut, cfg.highcut,
                                      scipy, seed)
        IN  /\ heap' = [heap EXCEPT ![df] = r.table]
            /\ enhanced_df' = df
            /\ ui' = ui \o r.errors
    /\ stages' = Append(stages, "Enhanced")
    /\ pc' = "watermark"
    /\ UNCHANGED <<authenticated, login, upload, df, cfg, watermark, preview,
                   download, calls>>

\* line 143: the result is a new frame (df.copy())
Enhance ==
    /\ pc = "enhance"
    /\ \E scipy \in ScipyBuilds, seed \in Seeds :
        LET r == demo_enhance_signals(heap[df], cfg.boost, cfg.lowcut, cfg.highcut,
                                      scipy, seed)
        IN  /\ heap' = Append(heap, r.table)
            /\ enhanced_df' = Len(heap) + 1
            /\ ui' = ui \o r.errors
    /\ stages' = Append(stages, "Enhanced")
    /\ pc' = "watermark"
    /\ UNCHANGED <<authenticated, login, upload, df, cfg, watermark, preview,
                   download, calls>>

\* line 146; an exception of insert is caught at line 173
Watermark ==
    /\ pc = "watermark"
    /\ \E now \in Clock :
        LET r == add_watermark(heap, enhanced_df, now)
        IN  IF r.raised
            THEN /\ ui' = Append(ui, DemoError)
                 /\ pc' = "done"
                 /\ UNCHANGED <<heap, enhanced_df, watermark, stages>>
            ELSE /\ heap' = r.heap
                 /\ enhanced_df' = r.ref
                 /\ watermark' = r.watermark
                 /\ stages' = Append(stages, "Watermarked")
                 /\ ui' = ui
                 /\ pc' = "preview"
    /\ UNCHANGED <<authenticated, login, upload, df, cfg, preview, download, calls>>

\* df.head(): the first five rows
PreviewRows == 5

\* lines 149-160
Preview ==
    /\ pc = "preview"
    /\ ui' = ui \o <<Complete, [info |-> watermark]>>
    /\ preview' = [shown |-> TRUE,
                   original |-> DataFrameHead(heap[df], PreviewRows),
                   enhanced |-> DataFrameHead(heap[enhanced_df], PreviewRows)]
    /\ pc' = "export"
    /\ UNCHANGED <<authenticated, login, upload, heap, df, cfg, enhanced_df,
                   watermark, download, stages, calls>>

\* lines 164-171
Export ==
    /\ pc = "export"
    /\ \E now \in Clock :
        download' = [offered |-> TRUE, data |-> to_csv(heap[enhanced_df]),
                     file_name |-> FileName(now), mime |-> "text/csv"]
    /\ stages' = Append(stages, "Exported")
    /\ pc' = "done"
    /\ UNCHANGED <<authenticated, login, ui, upload, heap, df, cfg, enhanced_df,
                   watermark, preview, calls>>

\* The next interaction: the script runs again from the top.  Only
\* st.session_state outlives a run.
Rerun ==
    /\ pc \in {"stopped", "done"}
    /\ pc' = "check_auth"
    /\ ui' = <<>>
    /\ upload' = NoFile
    /\ heap' = <<>>
    /\ df' = 0
    /\ cfg' = DefaultCfg
    /\ enhanced_df' = 0
    /\ watermark' = NoMarker
    /\ preview' = NoPreview
    /\ download' = NoDownload
    /\ stages' = <<>>
    /\ login' = [login EXCEPT !.button = FALSE]
    /\ UNCHANGED <<authenticated, calls>>

Next ==
    \/ LoginSubmit
    \/ LoginPage
    \/ AuthPass
    \/ FileUploader
    \/ SizeCheck
    \/ ReadCsv
    \/ RowLimit
    \/ Settings
    \/ Enhance
    \/ Watermark
    \/ Preview
    \/ Export
    \/ Rerun

Spec == Init /\ [][Next]_vars

-----------------------------------------------------------------------------
(* demo_enhance_signals called on any table with any configuration: the    *)
(* caller holds the table as df and receives the result as enhanced_df.    *)

AsFile(t) == [present |-> TRUE, size |-> MAX_FILE_SIZE, parses |-> TRUE, table |-> t]

EnhanceConfigs ==
    {[boost |-> b, lowcut |-> lo, highcut |-> hi] :
        b \in {BoostMin, BoostMax}, lo \in LowCuts \cup {0},
        hi \in HighCuts \cup {FS \div 2}}

InitEnhance ==
    /\ authenticated = TRUE
    /\ login = [password |-> SECRET, button |-> FALSE]
    /\ pc = "enhance"
    /\ ui = <<>>
    /\ \E t \in Tables : upload = AsFile(t) /\ heap = <<t>>
    /\ df = 1
    /\ cfg \in EnhanceConfigs
    /\ enhanced_df = 0
    /\ watermark = NoMarker
    /\ preview = NoPreview
    /\ download = NoDownload
    /\ stages = <<>>
    /\ calls = <<>>

SpecEnhance == InitEnhance /\ [][Enhance]_vars

(* add_watermark called twice on the same table with the same clock        *)
(* reading: each call's outcome, and the frame it returned as it was at    *)
(* the return, are appended to calls.                                      *)

StampCalls == 2

InitStamp ==
    /\ authenticated = TRUE
    /\ login = [password |-> SECRET, button |-> FALSE]
    /\ pc = "stamp"
    /\ ui = <<>>
    /\ \E t \in Tables : upload = AsFile(t) /\ heap = <<t>>
    /\ df = 1
    /\ cfg = DefaultCfg
    /\ enhanced_df = 0
    /\ watermark = NoMarker
    /\ preview = NoPreview
    /\ download = NoDownload
    /\ stages = <<>>
    /\ calls = <<>>

Stamp ==
    /\ pc = "stamp"
    /\ Len(calls) < StampCalls
    /\ \E now \in Clock :
        /\ calls # <<>> => now = calls[1].now
        /\ LET r == add_watermark(heap, df, now)
           IN  /\ heap' = r.heap
               /\ calls' = Append(calls,
                    [now |-> now, raised |-> r.raised, ref |-> r.ref,
                     watermark |-> r.watermark,
                     table |-> IF r.raised THEN <<>> ELSE r.heap[r.ref]])
    /\ UNCHANGED <<authenticated, login, pc, ui, upload, df, cfg, enhanced_df,
                   watermark, preview, download, stages>>

SpecStamp == InitStamp /\ [][Stamp]_vars

-----------------------------------------------------------------------------
(* Properties                                                              *)

Count(seq, x) == Cardinality({i \in 1..Len(seq) : seq[i] = x})
Pipeline == <<"Validated", "Enhanced", "Watermarked", "Exported">>
TimeNames == {"time", "Time", "TIME"}

\* C1: the session is authenticated only if the access code last submitted
\* was the secret; a run whose button press carried another string ends with
\* the flag false and the invalid-code error shown; and no stage of the
\* pipeline is running or has run while the flag is false.
C1_Gating ==
    /\ authenticated => login.password = "Demo2025"
    /\ (login.button /\ pc = "stopped") =>
            /\ login.password # "Demo2025"
            /\ ~authenticated
            /\ Shown(InvalidAccessCode)
    /\ ~authenticated =>
            /\ pc \in {"check_auth", "stopped"}
            /\ heap = <<>> /\ stages = <<>>
            /\ ~preview.shown /\ ~download.offered

\* an authenticated session has completed the pipeline
C1_Witness == authenticated /\ stages = Pipeline

\* C2: once the size check has seen an upload of more than max_file_bytes,
\* the run is over with the file-too-large error, nothing was parsed and
\* no stage has run.
C2_FileTooLarge ==
    (upload.present /\ upload.size > 2 * 1024 * 1024 /\ pc # "size_check") =>
        /\ pc = "done"
        /\ Shown(FileTooLarge)
        /\ heap = <<>> /\ df = 0 /\ enhanced_df = 0
        /\ stages = <<>>
        /\ ~preview.shown /\ ~download.offered

C2_Witness ==
    /\ upload.present /\ upload.parses /\ upload.size > 2 * 1024 * 1024
    /\ pc = "done"

\* C3: after validation, a parsed table of more than max_rows rows has
\* become its first max_rows rows, columns in the same order, with the
\* truncation notice shown, and a table of at most max_rows rows is
\* unchanged with no notice; the truncation is not reported as an error and
\* the request goes on (C3_Witness).
C3_RowCeiling ==
    stages # <<>> =>
        LET in == upload.table
            out == heap[df]
        IN  IF Rows(in) > 500
            THEN /\ ColumnNames(out) = ColumnNames(in)
                 /\ \A j \in 1..Len(out) :
                        /\ Len(out[j].values) = 500
                        /\ \A k \in 1..500 : out[j].values[k] = in[j].values[k]
                 /\ Shown(Truncated)
                 /\ Len(stages) = 1 => \A i \in 1..Len(ui) : "error" \notin DOMAIN ui[i]
            ELSE /\ out = in
                 /\ ~Shown(Truncated)

\* a truncated table went through the whole pipeline
C3_Witness == Rows(upload.table) > 500 /\ stages = Pipeline /\ Shown(Truncated)

\* the cutoffs satisfy 0 < lowcut_hz < highcut_hz < sample_rate_hz / 2
ValidBand(c) == 0 < c.lowcut /\ c.lowcut < c.highcut /\ 2 * c.highcut < 256

\* values is the transform of the first n cells of input: sample k of it
\* comes from sample k of a window of n samples
TransformOf(values, input, n) ==
    /\ Len(values) = n
    /\ \A k \in 1..n :
        /\ DOMAIN values[k] = {"y", "x", "n", "low", "high", "gain", "noise"}
        /\ values[k].y = k
        /\ values[k].x = input[k].num
        /\ values[k].n = n
        /\ values[k].gain = cfg.boost

Reports(name) == Count(ui, ProcessingError(name))

\* C4: when enhance has returned, its result has the column names, in
\* order, and the row count of its input, in every column, and each column
\* called "time" in any letter case has the input's values; the input
\* itself is as it was.
C4_ShapePreserved ==
    pc = "watermark" =>
        LET in == heap[df]
            out == heap[enhanced_df]
        IN  /\ in = upload.table
            /\ Len(out) = Len(in)
            /\ \A j \in 1..Len(in) :
                /\ out[j].name = in[j].name
                /\ Len(out[j].values) = Len(in[j].values)
                /\ in[j].name \in TimeNames => out[j].values = in[j].values

\* a call on a two-column table whose first column was transformed and
\* whose second column, "Time", kept its values
C4_Witness ==
    /\ pc = "watermark"
    /\ Len(heap[df]) = 2
    /\ heap[df][2].name = "Time"
    /\ Reports(heap[df][1].name) = 0
    /\ heap[enhanced_df][1].values # heap[df][1].values
    /\ heap[enhanced_df][2].values = heap[df][2].values

\* C5 as stated: when enhance has returned (the cutoffs valid, the table
\* long enough to filter), every signal column whose transform failed has
\* its input values and exactly one failure reported, and every other
\* numeric signal column has no failure reported and holds its transform.
C5_ColumnIsolation ==
    (pc = "watermark" /\ ValidBand(cfg) /\ Rows(heap[df]) > PadLen) =>
        LET in == heap[df]
            out == heap[enhanced_df]
        IN  \A j \in 1..Len(in) :
                (in[j].name \notin TimeNames /\ Reports(in[j].name) > 0) =>
                    /\ Reports(in[j].name) = 1
                    /\ out[j].values = in[j].values
                    /\ \A i \in 1..Len(in) :
                        (i # j /\ in[i].name \notin TimeNames /\ IsNumeric(in[i].values)) =>
                            /\ Reports(in[i].name) = 0
                            /\ out[i].values # in[i].values

\* C9 as stated: when enhance has returned from a table of more than
\* max_rows rows (the cutoffs valid), every numeric signal column has no
\* failure reported and holds the transform of its first max_rows entries.
C9_TruncationHarmless ==
    (pc = "watermark" /\ ValidBand(cfg) /\ Rows(heap[df]) > 500) =>
        LET in == heap[df]
            out == heap[enhanced_df]
        IN  \A j \in 1..Len(in) :
                (in[j].name \notin TimeNames /\ IsNumeric(in[j].values)) =>
                    /\ Reports(in[j].name) = 0
                    /\ out[j].values # in[j].values
                    /\ TransformOf(out[j].values, in[j].values, 500)

\* C10 as stated: whatever the sliders are set to, the cutoffs satisfy the
\* filter constraint, and after enhance no numeric column of a table long
\* enough to filter has fallen back.
C10_ConfigAlwaysValid ==
    pc \in {"enhance", "watermark", "preview", "export"} =>
        /\ ValidBand(cfg)
        /\ pc = "watermark" =>
            \A j \in 1..Len(heap[df]) :
                (IsNumeric(heap[df][j].values) /\ Rows(heap[df]) > PadLen) =>
                    Reports(heap[df][j].name) = 0

\* C6 as stated: the first call of stamp returns the input with one new
\* column in front, named unlike any input column, of the input's row
\* count, every value the marker returned.
C6_StampPrepends ==
    Len(calls) >= 1 =>
        LET c == calls[1]
            in == upload.table
        IN  /\ ~c.raised
            /\ Len(c.table) = Len(in) + 1
            /\ \A j \in 1..Len(in) : c.table[j + 1] = in[j]
            /\ c.table[1].name \notin NameSet(in)
            /\ Len(c.table[1].values) = Rows(in)
            /\ \A k \in 1..Rows(in) : c.table[1].values[k] = c.watermark

\* C7 as stated, for a table that has no watermark column yet: after a call
\* of stamp the caller's table has the columns it had before, and two calls
\* with the same clock reading both return, with identical tables.
C7_StampPure ==
    (Len(calls) >= 1 /\ "DEMO_WATERMARK" \notin NameSet(upload.table)) =>
        /\ ColumnNames(heap[df]) = ColumnNames(upload.table)
        /\ Len(calls) = 2 =>
            /\ ~calls[1].raised /\ ~calls[2].raised
            /\ calls[1].table = calls[2].table

IsPrefix(s, t) == Len(s) <= Len(t) /\ \A i \in 1..Len(s) : s[i] = t[i]

\* C8: the stages a request has completed are an initial part of
\* Validated, Enhanced, Watermarked, Exported, and the script is where that
\* part ends; an artifact is offered only when all four are done, and it is
\* the validated table's columns behind the watermark column, one record
\* per row, each starting with the marker; the original in the preview is
\* the head of the validated upload and has no watermark column.
C8_StageOrder ==
    /\ IsPrefix(stages, Pipeline)
    /\ pc = "settings" => stages = SubSeq(Pipeline, 1, 1)
    /\ pc = "enhance" => stages = SubSeq(Pipeline, 1, 1)
    /\ pc = "watermark" => stages = SubSeq(Pipeline, 1, 2)
    /\ pc \in {"preview", "export"} => stages = SubSeq(Pipeline, 1, 3)
    /\ download.offered <=> stages = Pipeline
    /\ download.offered =>
        /\ watermark # NoMarker
        /\ download.data.header = <<"DEMO_WATERMARK">> \o ColumnNames(heap[df])
        /\ Len(download.data.records) = Rows(heap[df])
        /\ \A r \in 1..Rows(heap[df]) :
            /\ Len(download.data.records[r]) = Len(heap[df]) + 1
            /\ download.data.records[r][1] = watermark
    /\ preview.shown =>
        /\ Len(stages) >= 3
        /\ "DEMO_WATERMARK" \notin NameSet(preview.original)
        /\ ColumnNames(preview.original) = ColumnNames(upload.table)
        /\ \A j \in 1..Len(preview.original) :
            \A k \in 1..Len(preview.original[j].values) :
                preview.original[j].values[k] = upload.table[j].values[k]
        /\ preview.enhanced[1].name = "DEMO_WATERMARK"

\* an artifact with at least one record is offered
C8_Witness == download.offered /\ Len(download.data.records) > 0 /\ preview.shown

====
